---- MODULE Spec2Model ----
(***************************************************************************)
(* Model of SweetAware_API/src/controllers/predictionController.js: the    *)
(* four request handlers (createPrediction, getPredictionHistory,          *)
(* getPredictionById, deletePrediction), the Joi schema they validate      *)
(* against, the mongoose connection state they branch on and the           *)
(* Prediction collection they read and write.                              *)
(*                                                                         *)
(* Strings that the code inspects (ids, query parameters, the keys of a    *)
(* payload, messages) are sequences of one-character strings so that       *)
(* startsWith, includes, parseInt and template literals are computed.  A   *)
(* character outside ASCII, and the vertical tab, is the one-element       *)
(* string that names its code point ("U+00A0" is the no-break space).      *)
(* Times are milliseconds relative to the instant the model starts.        *)
(* Math.random() values are thousandths (0..999 stands for [0,1)).         *)
(***************************************************************************)
EXTENDS Integers, Sequences, FiniteSets, TLC

(* ------------------------------ bounds --------------------------------- *)

\* number of documents the collection ever receives
MaxIds == 2

\* number of clock ticks
MaxClock == 1

\* number of requests whose store operation is in flight at once
MaxInFlight == 2

\* number of documents the collection receives under the specifications
\* with wide inputs
MaxIdsWide == 1

\* number of repeated mock Deletes of one id the history counts
MaxRepeats == 2

\* number of draws of Math.random() after which a request's draws repeat
RandPeriod == 1

Min(a, b) == IF a < b THEN a ELSE b

(* ------------------------------ strings -------------------------------- *)

Digit(d) ==
  <<"0", "1", "2", "3", "4", "5", "6", "7", "8", "9">>[d + 1]

RECURSIVE ToStr(_)
\* String(n) for a non-negative integer n
ToStr(n) ==
  IF n < 10 THEN <<Digit(n)>> ELSE ToStr(n \div 10) \o <<Digit(n % 10)>>

\* s.startsWith(p)
StartsWith(s, p) ==
  /\ Len(s) >= Len(p)
  /\ \A i \in 1..Len(p) : s[i] = p[i]

MockPrefix == <<"m", "o", "c", "k", "-">>

SentinelId ==
  <<"6", "0", "d", "2", "1", "b", "4", "6", "6", "7", "d", "0",
    "d", "8", "9", "9", "2", "e", "6", "1", "0", "c", "8", "5">>

\* `mock-${Date.now()}`
MockCreateId(t) == MockPrefix \o ToStr(t)

\* the id of a list item without the prefix
MockListIdBare(i, t) == ToStr(i) \o <<"-">> \o ToStr(t)

\* `mock-${i}-${Date.now()}`
MockListId(i, t) == MockPrefix \o ToStr(i) \o <<"-">> \o ToStr(t)

\* the _id the collection gives its n-th document (a 24 digit hex ObjectId)
StoreId(n) ==
  <<"6", "5", "f", "1", "c", "0", "f", "f", "e", "e", "0", "0",
    "0", "0", "0", "0", "0", "0", "0", "0", "0", "0", "0">> \o ToStr(n)

(* --------------------------- payload values ---------------------------- *)

\* A JavaScript value of a payload: its type t, its number n and its text s.
\* Numbers are in tenths (Num(65) is 6.5).  A string whose text is a decimal
\* numeral carries the number it denotes in n and "#" as its text.
Str(s) == [t |-> "string", n |-> 0, s |-> s]
NumStr(n) == [t |-> "string", n |-> n, s |-> "#"]
Num(n) == [t |-> "number", n |-> n, s |-> ""]
Bool(b) == [t |-> "boolean", n |-> IF b THEN 1 ELSE 0, s |-> ""]
Undefined == [t |-> "undefined", n |-> 0, s |-> ""]

\* payload[f] of a JavaScript object: undefined for a key it does not have
Get(p, f) == IF f \in DOMAIN p THEN p[f] ELSE Undefined

(* ------------------------ predictionValidation ------------------------- *)

\* the keys of the schema, lines 8-15
Gender ==
  <<"g", "e", "n", "d", "e", "r">>

Age ==
  <<"a", "g", "e">>

Hypertension ==
  <<"h", "y", "p", "e", "r", "t", "e", "n", "s", "i", "o", "n">>

HeartDisease ==
  <<"h", "e", "a", "r", "t", "D", "i", "s", "e", "a", "s", "e">>

SmokingHistory ==
  <<"s", "m", "o", "k", "i", "n", "g", "H", "i", "s", "t", "o", "r", "y">>

Bmi ==
  <<"b", "m", "i">>

HbA1cLevel ==
  <<"h", "b", "A", "1", "c", "L", "e", "v", "e", "l">>

BloodGlucoseLevel ==
  <<"b", "l", "o", "o", "d", "G", "l", "u", "c", "o", "s", "e", "L", "e",
    "v", "e", "l">>

\* the keys in the order the schema lists them
SchemaKeys ==
  <<Gender, Age, Hypertension, HeartDisease, SmokingHistory, Bmi,
    HbA1cLevel, BloodGlucoseLevel>>

RequiredKeys == {Gender, Age, HeartDisease, SmokingHistory, Bmi}

OptionalKeys == {Hypertension, HbA1cLevel, BloodGlucoseLevel}

\* the texts Joi gives the rules of the schema
RuleRequired ==
  <<"i", "s", " ", "r", "e", "q", "u", "i", "r", "e", "d">>

RuleGender ==
  <<"m", "u", "s", "t", " ", "b", "e", " ", "o", "n", "e", " ", "o", "f",
    " ", "[", "M", "a", "l", "e", ",", " ", "F", "e", "m", "a", "l", "e",
    "]">>

RuleSmokingHistory ==
  <<"m", "u", "s", "t", " ", "b", "e", " ", "o", "n", "e", " ", "o", "f",
    " ", "[", "n", "e", "v", "e", "r", ",", " ", "f", "o", "r", "m", "e",
    "r", ",", " ", "c", "u", "r", "r", "e", "n", "t", "]">>

RuleNumber ==
  <<"m", "u", "s", "t", " ", "b", "e", " ", "a", " ", "n", "u", "m", "b",
    "e", "r">>

RuleBoolean ==
  <<"m", "u", "s", "t", " ", "b", "e", " ", "a", " ", "b", "o", "o", "l",
    "e", "a", "n">>

RuleNotAllowed ==
  <<"i", "s", " ", "n", "o", "t", " ", "a", "l", "l", "o", "w", "e", "d">>

\* no rule violated
NoRule == <<>>

\* the rule of key f that value v violates, NoRule when it violates none
KeyError(f, v) ==
  IF v.t = "undefined"
  THEN IF f \in RequiredKeys THEN RuleRequired ELSE NoRule
  ELSE IF f = Gender
  THEN IF v.t = "string" /\ v.s \in {"Male", "Female"}
       THEN NoRule ELSE RuleGender
  ELSE IF f = SmokingHistory
  THEN IF v.t = "string" /\ v.s \in {"never", "former", "current"}
       THEN NoRule ELSE RuleSmokingHistory
  ELSE IF f \in {Age, Bmi, HbA1cLevel, BloodGlucoseLevel}
  THEN IF v.t = "number" \/ (v.t = "string" /\ v.s = "#")
       THEN NoRule ELSE RuleNumber
  ELSE IF v.t = "boolean" \/ (v.t = "string" /\ v.s \in {"true", "false"})
       THEN NoRule ELSE RuleBoolean

SchemaKeySet == {SchemaKeys[i] : i \in 1..Len(SchemaKeys)}

\* the keys of the payload the schema does not know
UnknownKeys(p) == DOMAIN p \ SchemaKeySet

\* error.details[0].message: the label in double quotes, a space, the rule
ErrorMessage(f, rule) == <<"\"">> \o f \o <<"\"", " ">> \o rule

RECURSIVE ValidateFrom(_, _)
\* the schema's keys are checked in order from the i-th on and the first
\* violation ends the validation; unknown keys are reported after them
ValidateFrom(p, i) ==
  IF i > Len(SchemaKeys)
  THEN IF UnknownKeys(p) = {}
       THEN <<>>
       ELSE ErrorMessage(CHOOSE k \in UnknownKeys(p) : TRUE, RuleNotAllowed)
  ELSE IF KeyError(SchemaKeys[i], Get(p, SchemaKeys[i])) # NoRule
  THEN ErrorMessage(SchemaKeys[i], KeyError(SchemaKeys[i], Get(p, SchemaKeys[i])))
  ELSE ValidateFrom(p, i + 1)

\* predictionValidation.validate(payload).error: <<>> when there is none
Validate(p) == ValidateFrom(p, 1)

\* Line 33: the text appended to the message
OmitGuidance ==
  <<".", " ", "A", "n", "d", "a", " ", "d", "a", "p", "a", "t", " ", "m",
    "e", "l", "a", "n", "j", "u", "t", "k", "a", "n", " ", "t", "a", "n",
    "p", "a", " ", "m", "e", "n", "g", "i", "s", "i", " ", "n", "i", "l",
    "a", "i", " ", "i", "n", "i", ",", " ", "s", "i", "s", "t", "e", "m",
    " ", "a", "k", "a", "n", " ", "m", "e", "m", "b", "e", "r", "i", "k",
    "a", "n", " ", "e", "s", "t", "i", "m", "a", "s", "i", " ", "b", "e",
    "r", "d", "a", "s", "a", "r", "k", "a", "n", " ", "d", "a", "t", "a",
    " ", "l", "a", "i", "n", " ", "y", "a", "n", "g", " ", "A", "n", "d",
    "a", " ", "b", "e", "r", "i", "k", "a", "n", ".">>

\* t.includes(p)
IsSubstring(p, t) ==
  \E i \in 0..(Len(t) - Len(p)) : \A j \in 1..Len(p) : t[i + j] = p[j]

\* errorMessage.includes(s)
Includes(msg, s) == IsSubstring(s, msg)

\* the message of the 400 response
ValidationMessage(err) ==
  IF \/ Includes(err, HbA1cLevel)
     \/ Includes(err, BloodGlucoseLevel)
     \/ Includes(err, Hypertension)
  THEN err \o OmitGuidance
  ELSE err

(* --------------------- messages of the responses ---------------------- *)

\* Line 115
CreatedMessage ==
  <<"P", "r", "e", "d", "i", "c", "t", "i", "o", "n", " ", "c", "r", "e",
    "a", "t", "e", "d", " ", "s", "u", "c", "c", "e", "s", "s", "f", "u",
    "l", "l", "y">>

\* Line 92
CreatedMockMessage ==
  <<"P", "r", "e", "d", "i", "c", "t", "i", "o", "n", " ", "c", "r", "e",
    "a", "t", "e", "d", " ", "s", "u", "c", "c", "e", "s", "s", "f", "u",
    "l", "l", "y", " ", "(", "M", "O", "C", "K", " ", "-", " ", "N", "o",
    " ", "D", "B", ")">>

\* Lines 235, 284 and 325
NotFoundMessage ==
  <<"P", "r", "e", "d", "i", "c", "t", "i", "o", "n", " ", "n", "o", "t",
    " ", "f", "o", "u", "n", "d">>

\* Line 333
DeletedMockMessage ==
  <<"P", "r", "e", "d", "i", "c", "t", "i", "o", "n", " ", "d", "e", "l",
    "e", "t", "e", "d", " ", "s", "u", "c", "c", "e", "s", "s", "f", "u",
    "l", "l", "y", " ", "(", "M", "O", "C", "K", " ", "-", " ", "N", "o",
    " ", "D", "B", ")">>

\* Line 349
NotFoundOrForbiddenMessage ==
  <<"P", "r", "e", "d", "i", "c", "t", "i", "o", "n", " ", "n", "o", "t",
    " ", "f", "o", "u", "n", "d", " ", "o", "r", " ", "y", "o", "u", " ",
    "d", "o", "n", "'", "t", " ", "h", "a", "v", "e", " ", "p", "e", "r",
    "m", "i", "s", "s", "i", "o", "n", " ", "t", "o", " ", "d", "e", "l",
    "e", "t", "e", " ", "i", "t">>

\* Line 357
DeletedMessage ==
  <<"P", "r", "e", "d", "i", "c", "t", "i", "o", "n", " ", "d", "e", "l",
    "e", "t", "e", "d", " ", "s", "u", "c", "c", "e", "s", "s", "f", "u",
    "l", "l", "y">>

(* --------------------- inference and its fallback ---------------------- *)

StaticRecommendations ==
  [lifestyle |->
     <<"Maintain a balanced diet rich in vegetables and fruits",
       "Regular physical activity (at least 150 minutes per week)">>,
   monitoring |-> <<"Regular blood glucose monitoring">>,
   consultation |-> <<"Follow up with your primary care physician">>]

\* a result that carries no recommendations
NoRecommendations ==
  [lifestyle |-> <<>>, monitoring |-> <<>>, consultation |-> <<>>]

EngineRecommendations ==
  [lifestyle |-> <<"Reduce sugar intake">>,
   monitoring |-> <<"Check HbA1c every 3 months">>,
   consultation |-> <<"Consult an endocrinologist">>]

\* the results DiabetesPredictionService.makePrediction returns
EngineResults ==
  { [prediction |-> "High Risk", riskScore |-> 820,
     factors |-> [bmi |-> "Overweight"],
     recommendations |-> EngineRecommendations],
    [prediction |-> "Low Risk", riskScore |-> 120,
     factors |-> [bmi |-> "Normal"],
     recommendations |-> NoRecommendations] }

\* DiabetesPredictionService.getRecommendations(result)
GetRecommendations(r) ==
  IF r.recommendations # NoRecommendations
  THEN r.recommendations
  ELSE StaticRecommendations

\* x > limit of JavaScript for a payload value x and a number limit (tenths):
\* undefined and a non-numeric string convert to NaN, a boolean to 0 or 1
GreaterThan(v, limit) ==
  IF v.t = "number" \/ (v.t = "string" /\ v.s = "#") THEN v.n > limit
  ELSE IF v.t = "boolean" THEN v.n * 10 > limit
  ELSE FALSE

\* the truthiness of a payload value
Truthy(v) ==
  IF v.t = "undefined" THEN FALSE
  ELSE IF v.t = "boolean" THEN v.n = 1
  ELSE IF v.t = "number" THEN v.n # 0
  ELSE TRUE

FallbackFactors(inputData) ==
  [bloodGlucoseLevel |->
     IF GreaterThan(Get(inputData, BloodGlucoseLevel), 1400)
     THEN "High" ELSE "Normal",
   hbA1cLevel |->
     IF GreaterThan(Get(inputData, HbA1cLevel), 65)
     THEN "Elevated" ELSE "Normal",
   bmi |->
     IF GreaterThan(Get(inputData, Bmi), 250) THEN "Overweight" ELSE "Normal",
   hypertension |->
     IF Truthy(Get(inputData, Hypertension)) THEN "Present" ELSE "Absent",
   heartDisease |->
     IF Truthy(Get(inputData, HeartDisease)) THEN "Present" ELSE "Absent"]

\* the fallback with its score as a percentage
FallbackResultPercent(inputData, r1, r2) ==
  [prediction |-> IF r1 > 500 THEN "High Risk" ELSE "Low Risk",
   riskScore |-> r2 * 100,
   factors |-> FallbackFactors(inputData),
   recommendations |-> StaticRecommendations]

\* the result built in the catch block, r1 and r2 the two Math.random() draws
FallbackResult(inputData, r1, r2) ==
  [prediction |-> IF r1 > 500 THEN "High Risk" ELSE "Low Risk",
   riskScore |-> r2,
   factors |-> FallbackFactors(inputData),
   recommendations |-> StaticRecommendations]

\* what the try block leaves in predictionResult for an engine result r
EngineResult(r) == [r EXCEPT !.recommendations = GetRecommendations(r)]

(* ------------------------------- state --------------------------------- *)

VARIABLES
  readyState,   \* mongoose.connection.readyState
  store,        \* the documents of the Prediction collection
  nextId,       \* how many documents the collection has been given
  now,          \* Date.now()
  pending,      \* per user, the request whose store operation is in flight
  resp,         \* the response the last step sent, with the request it
                \* answers; NoResponse when the step sent none
  createdLog,   \* history: what the 201 of the real path returned for each
                \* id no Delete has answered 200 for since
  deletedLog,   \* history: the ids a real-path Delete answered 200 for, each
                \* with the user whose Create it came from
  mockLog       \* history: the id a mock Delete accepted last and how many
                \* times in a row it did, counted up to MaxRepeats

vars ==
  <<readyState, store, nextId, now, pending, resp, createdLog, deletedLog,
    mockLog>>

Users == {"A", "B"}

Idle == [op |-> "idle"]

NoId == <<>>

NoPayload == <<>>

NoData == <<>>

NoMessage == <<>>

\* the result of a request in which makePrediction returned none
NoEngine ==
  [prediction |-> "", riskScore |-> 0, factors |-> [bmi |-> ""],
   recommendations |-> NoRecommendations]

\* A response: code, status, message and data are what the handler sends;
\* op, user, id, payload and query are the request it answers; path says
\* which branch answered it, inference how the try block of Create ended,
\* engine what makePrediction returned in it, and storeOps lists the
\* operations the request ran on the collection.
Response(op, user, code, status, message, data, path, req) ==
  [op |-> op, user |-> user, code |-> code, status |-> status,
   message |-> message, data |-> data, path |-> path,
   id |-> req.id, payload |-> req.payload, query |-> req.query,
   inference |-> req.inference, storeOps |-> req.storeOps,
   engine |-> IF "engine" \in DOMAIN req THEN req.engine ELSE NoEngine]

\* the request part of a response
Request(id, payload, query, inference, storeOps) ==
  [id |-> id, payload |-> payload, query |-> query, inference |-> inference,
   storeOps |-> storeOps]

NoQuery == <<>>

NoResponse ==
  Response("none", "", 0, "", NoMessage, NoData, "none",
           Request(NoId, NoPayload, NoQuery, "none", <<>>))

Init ==
  /\ readyState \in {0, 1}
  /\ store = {}
  /\ nextId = 0
  /\ now = 0
  /\ pending = [u \in Users |-> Idle]
  /\ resp = NoResponse
  /\ createdLog = {}
  /\ deletedLog = {}
  /\ mockLog = [id |-> NoId, repeats |-> 0]

(* ---------------------------- environment ------------------------------ *)

\* the connection is managed outside the handlers: 0 disconnected,
\* 1 connected, 2 connecting
ConnectionChange ==
  /\ readyState' \in
       CASE readyState = 0 -> {2}
         [] readyState = 1 -> {0}
         [] OTHER -> {0, 1}
  /\ resp' = NoResponse
  /\ UNCHANGED <<store, nextId, now, pending, createdLog, deletedLog,
                 mockLog>>

Tick ==
  /\ now < MaxClock
  /\ now' = now + 1
  /\ resp' = NoResponse
  /\ UNCHANGED <<readyState, store, nextId, pending, createdLog,
                 deletedLog, mockLog>>

\* the value the n-th call of Date.now() of a request returns when the
\* clock moves on by a millisecond after the request's first `ticked` calls
ClockRead(n, ticked) == IF n > ticked THEN now + 1 ELSE now

\* an operation on the collection succeeds while the connection is up and
\* fails (the promise rejects) when it is not
StoreAvailable == readyState = 1

\* the number of requests in flight
InFlight == Cardinality({u \in Users : pending[u] # Idle})

\* the catch block of every handler: 500 with the message of the error
ErrorResponse(op, user, message, req) ==
  Response(op, user, 500, "error", message, NoData, "error", req)

\* error.message of an operation that failed for want of a connection
StoreErrorMessage ==
  <<"b", "u", "f", "f", "e", "r", "i", "n", "g", " ", "t", "i", "m", "e",
    "d", " ", "o", "u", "t">>

\* error.message of an error the inference threw
InferenceErrorMessage ==
  <<"p", "r", "e", "d", "i", "c", "t", "i", "o", "n", " ", "f", "a", "i",
    "l", "e", "d">>

(* --------------------------- createPrediction -------------------------- *)

\* the number of documents the requests in flight are about to add
CreatesInFlight ==
  Cardinality({u \in Users :
                 pending[u].op = "create" /\ pending[u].stage = "save"})

\* the call of the try block that throws: none, the call of line 51 or
\* the call of line 57
Failures == {"none", "makePrediction", "getRecommendations"}

\* how the try block ended: "ok", "failed" when makePrediction threw,
\* "composeFailed" when getRecommendations threw
InferenceOutcome(failed) ==
  CASE failed = "none" -> "ok"
    [] failed = "makePrediction" -> "failed"
    [] OTHER -> "composeFailed"

\* what makePrediction returned in the try block
EngineReturned(failed, engine) ==
  IF failed = "makePrediction" THEN NoEngine ELSE engine

\* the try block without its catch: a failure of the engine is thrown on
TryInferenceNoCatch(inputData, failed, engine, r1, r2) ==
  [threw |-> failed # "none",
   inference |-> InferenceOutcome(failed),
   engine |-> EngineReturned(failed, engine),
   result |-> EngineResult(engine)]

\* Lines 49-85: the try block and its catch block; failed names the call
\* that throws, engine is the result makePrediction returns when it does
\* not throw, r1 and r2 are the draws of the fallback.  threw says whether
\* an error leaves the block.
TryInference(inputData, failed, engine, r1, r2) ==
  [threw |-> FALSE,
   inference |-> InferenceOutcome(failed),
   engine |-> EngineReturned(failed, engine),
   result |-> IF failed # "none"
              THEN FallbackResult(inputData, r1, r2)
              ELSE EngineResult(engine)]

\* the request a response of Create answers
CreateRequest(payload, tried, storeOps) ==
  [id |-> NoId, payload |-> payload, query |-> NoQuery,
   inference |-> tried.inference, storeOps |-> storeOps,
   engine |-> tried.engine]

\* the test that lets a violation of an optional key pass
RejectsRequiredOnly(err) ==
  /\ err # <<>>
  /\ ~Includes(err, HbA1cLevel)
  /\ ~Includes(err, BloodGlucoseLevel)
  /\ ~Includes(err, Hypertension)

\* Line 22: the test that sends the 400
Rejects(err) == err # <<>>

\* the branch taken for every state but "disconnected"
CreateNotDisconnected == readyState # 0

\* Line 86: the branch to the real path
CreateConnected == ~(readyState # 1)

\* the calls of the clock the mock 201 makes: Date.now() for the id
\* (line 94) and new Date() for createdAt (line 97)
MockCreateReads == 2

\* Lines 19-51: validation and the 400, or the call of makePrediction, at
\* whose await the handler lets other requests and the connection go on
CreateBegin(u, payload) ==
  /\ pending[u] = Idle
  /\ LET err == Validate(payload)
         inputData == payload
     IN
     IF Rejects(err)
     THEN /\ resp' = Response("create", u, 400, "error",
                              ValidationMessage(err), NoData, "invalid",
                              Request(NoId, payload, NoQuery, "none", <<>>))
          /\ UNCHANGED pending
     ELSE /\ InFlight < MaxInFlight
          /\ pending' = [pending EXCEPT ![u] =
                 [op |-> "create", stage |-> "infer",
                  inputData |-> inputData]]
          /\ resp' = NoResponse
  /\ UNCHANGED <<readyState, store, nextId, now, createdLog, deletedLog,
                 mockLog>>

\* Lines 51-108 and 124-131: the inference ends, with its result or in the
\* catch block; then the connection check and the mock response, or on the
\* real path the save is left in flight.  failed, engine, r1, r2 are the
\* outcome of the inference (see TryInference); the clock moves on after
\* the first `ticked` of the calls the mock response makes of it (after
\* none of them when ticked is MockCreateReads); cap bounds the documents
\* the model lets be created.
CreateInfer(u, failed, engine, r1, r2, ticked, cap) ==
  /\ pending[u].op = "create"
  /\ pending[u].stage = "infer"
  /\ LET inputData == pending[u].inputData
         tried == TryInference(inputData, failed, engine, r1, r2)
         predictionResult == tried.result
     IN
     IF tried.threw
     THEN /\ resp' = ErrorResponse("create", u, InferenceErrorMessage,
                 CreateRequest(inputData, tried, <<>>))
          /\ pending' = [pending EXCEPT ![u] = Idle]
          /\ UNCHANGED now
     ELSE IF ~CreateConnected
     THEN /\ ticked < MockCreateReads => now < MaxClock
          /\ now' = IF ticked < MockCreateReads THEN now + 1 ELSE now
          /\ resp' = Response("create", u, 201, "success",
                 CreatedMockMessage,
                 [id |-> MockCreateId(ClockRead(1, ticked)),
                  inputData |-> inputData,
                  result |-> predictionResult,
                  createdAt |-> ClockRead(2, ticked)],
                 "mock", CreateRequest(inputData, tried, <<>>))
          /\ pending' = [pending EXCEPT ![u] = Idle]
     ELSE /\ nextId + CreatesInFlight < cap
          /\ pending' = [pending EXCEPT ![u] =
                 [op |-> "create", stage |-> "save",
                  inputData |-> inputData,
                  result |-> predictionResult, tried |-> tried]]
          /\ resp' = NoResponse
          /\ UNCHANGED now
  /\ UNCHANGED <<readyState, store, nextId, createdLog, deletedLog,
                 mockLog>>

\* the document made with a fixed user in the place of the caller
StoreCreateForFirstUser(user, inputData, result) ==
  [_id |-> StoreId(nextId + 1), user |-> "A", inputData |-> inputData,
   result |-> result, createdAt |-> now]

\* Prediction.create: the collection gives the document its _id and
\* createdAt and keeps it
StoreCreate(user, inputData, result) ==
  [_id |-> StoreId(nextId + 1), user |-> user, inputData |-> inputData,
   result |-> result, createdAt |-> now]

\* Lines 110-131: prediction.save() and the 201, or the catch block when
\* the save fails because the connection is gone
CreateSave(u) ==
  /\ pending[u].op = "create"
  /\ pending[u].stage = "save"
  /\ pending' = [pending EXCEPT ![u] = Idle]
  /\ LET req == CreateRequest(pending[u].inputData, pending[u].tried,
                              <<"create">>)
         prediction ==
           StoreCreate(u, pending[u].inputData, pending[u].result)
     IN
     IF StoreAvailable
     THEN /\ store' = store \cup {prediction}
          /\ nextId' = nextId + 1
          /\ resp' = Response("create", u, 201, "success",
                              CreatedMessage,
                              [id |-> prediction._id,
                               inputData |-> prediction.inputData,
                               result |-> prediction.result,
                               createdAt |-> prediction.createdAt],
                              "real", req)
          /\ createdLog' = createdLog \cup
               {[id |-> prediction._id, user |-> u,
                 inputData |-> prediction.inputData,
                 result |-> prediction.result]}
     ELSE /\ resp' = ErrorResponse("create", u, StoreErrorMessage, req)
          /\ UNCHANGED <<store, nextId, createdLog>>
  /\ UNCHANGED <<readyState, now, deletedLog, mockLog>>

(* -------------------------- getPredictionById -------------------------- *)

HexDigits ==
  <<"0", "1", "2", "3", "4", "5", "6", "7", "8", "9",
    "a", "b", "c", "d", "e", "f">>

\* the lower-case form of a hexadecimal letter
LowerHex(c) ==
  CASE c = "A" -> "a" [] c = "B" -> "b" [] c = "C" -> "c"
    [] c = "D" -> "d" [] c = "E" -> "e" [] c = "F" -> "f"
    [] OTHER -> c

IsHexDigit(c) == \E d \in 1..16 : HexDigits[d] = LowerHex(c)

HexValue(c) == (CHOOSE d \in 1..16 : HexDigits[d] = LowerHex(c)) - 1

\* id is the text of an ObjectId: 24 hexadecimal digits
IsObjectIdText(id) ==
  /\ Len(id) = 24
  /\ \A i \in 1..Len(id) : IsHexDigit(id[i])

\* the outcomes of casting the text id to the ObjectId of _id, which a
\* query does before it looks anything up: the text of an ObjectId is
\* cast; a text of 12 characters is taken for the 12 bytes of an ObjectId
\* by the versions of the driver that accept one and refused by the
\* others; any other text is refused and the query rejects
CastOutcomes(id) ==
  IF IsObjectIdText(id) THEN {"cast"}
  ELSE IF Len(id) = 12 THEN {"cast", "refused"}
  ELSE {"refused"}

\* error.message of the CastError of a query whose _id was refused
CastErrorMessage(id) ==
  <<"C", "a", "s", "t", " ", "t", "o", " ", "O", "b", "j", "e", "c", "t",
    "I", "d", " ", "f", "a", "i", "l", "e", "d", " ", "f", "o", "r", " ",
    "v", "a", "l", "u", "e", " ", "\"">>
    \o id \o
  <<"\"", " ", "(", "t", "y", "p", "e", " ", "s", "t", "r", "i", "n", "g",
    ")", " ", "a", "t", " ", "p", "a", "t", "h", " ", "\"", "_", "i", "d",
    "\"", " ", "f", "o", "r", " ", "m", "o", "d", "e", "l", " ", "\"", "P",
    "r", "e", "d", "i", "c", "t", "i", "o", "n", "\"">>

\* Prediction.findOne({_id, user}) once _id is cast: the document, or none
FindOne(id, user) == {r \in store : r._id = id /\ r.user = user}

\* Lines 228-231: the ids the mock path answers 404 for
GetMockNotFound(predictionId) ==
  /\ ~StartsWith(predictionId, MockPrefix)
  /\ predictionId # SentinelId

\* Line 223: the branch to the real path
GetConnected == ~(readyState # 1)

\* the query without its _id filter
GetQueryAnyId(predictionId, userId) == {r \in store : r.user = userId}

\* Lines 275-278: the query of the real path
GetQuery(predictionId, userId) == FindOne(predictionId, userId)

\* Lines 217-273: the connection check and the mock response
GetBegin(u, predictionId) ==
  /\ pending[u] = Idle
  /\ LET req == Request(predictionId, NoPayload, NoQuery, "none", <<>>) IN
     IF ~GetConnected
     THEN /\ IF GetMockNotFound(predictionId)
             THEN resp' = Response("get", u, 404, "error",
                                   NotFoundMessage, NoData,
                                   "mock", req)
             ELSE resp' = Response("get", u, 200, "success", NoMessage,
                    [prediction |->
                       [_id |-> predictionId,
                        inputData |->
                          [glucose |-> 1400, bloodPressure |-> 800,
                           skinThickness |-> 250, insulin |-> 1200,
                           bmi |-> 245, age |-> 450],
                        result |->
                          [prediction |-> "High Risk", riskScore |-> 750,
                           factors |->
                             [glucose |-> "High", bloodPressure |-> "Normal",
                              bmi |-> "Normal"]],
                        createdAt |-> now,
                        user |-> u]],
                    "mock", req)
          /\ UNCHANGED pending
     ELSE /\ InFlight < MaxInFlight
          /\ pending' = [pending EXCEPT ![u] =
                           [op |-> "get", id |-> predictionId]]
          /\ resp' = NoResponse
  /\ UNCHANGED <<readyState, store, nextId, now, createdLog, deletedLog,
                 mockLog>>

\* Lines 275-304: findOne and the 404 or 200, or the catch block for a
\* query that rejects, on the cast of its _id or for want of a connection
GetFind(u, cast) ==
  /\ pending[u].op = "get"
  /\ cast \in CastOutcomes(pending[u].id)
  /\ pending' = [pending EXCEPT ![u] = Idle]
  /\ LET req == Request(pending[u].id, NoPayload, NoQuery, "none",
                        <<"findOne">>)
         found == GetQuery(pending[u].id, u)
     IN
     IF cast = "refused"
     THEN resp' = ErrorResponse("get", u, CastErrorMessage(pending[u].id),
                                req)
     ELSE IF ~StoreAvailable
     THEN resp' = ErrorResponse("get", u, StoreErrorMessage, req)
     ELSE IF found = {}
     THEN resp' = Response("get", u, 404, "error",
                           NotFoundMessage, NoData, "real", req)
     ELSE resp' = Response("get", u, 200, "success", NoMessage,
                           [prediction |-> CHOOSE r \in found : TRUE],
                           "real", req)
  /\ UNCHANGED <<readyState, store, nextId, now, createdLog, deletedLog,
                 mockLog>>

(* --------------------------- deletePrediction -------------------------- *)

\* the rule without the sentinel id
DeleteMockNotFoundNoSentinel(predictionId) ==
  ~StartsWith(predictionId, MockPrefix)

\* Lines 318-321: the ids the mock path answers 404 for
DeleteMockNotFound(predictionId) ==
  /\ ~StartsWith(predictionId, MockPrefix)
  /\ predictionId # SentinelId

\* Line 314: the branch to the real path
DeleteConnected == ~(readyState # 1)

\* the query without its user filter
DeleteQueryAnyOwner(predictionId, userId) ==
  {r \in store : r._id = predictionId}

\* Lines 339-342: the query of the real path
DeleteQuery(predictionId, userId) == FindOne(predictionId, userId)

\* Line 339: findOneAndDelete takes the document it found out of the
\* collection
StoreAfterDelete(found) == store \ found

\* Lines 308-336: the connection check and the mock response
DeleteBegin(u, predictionId) ==
  /\ pending[u] = Idle
  /\ LET req == Request(predictionId, NoPayload, NoQuery, "none", <<>>) IN
     IF ~DeleteConnected
     THEN /\ IF DeleteMockNotFound(predictionId)
             THEN /\ resp' = Response("delete", u, 404, "error",
                                      NotFoundMessage, NoData,
                                      "mock", req)
                  /\ UNCHANGED mockLog
             ELSE /\ resp' = Response("delete", u, 200, "success",
                         DeletedMockMessage,
                         NoData, "mock", req)
                  /\ mockLog' =
                       [id |-> predictionId,
                        repeats |->
                          IF mockLog.id = predictionId
                          THEN Min(mockLog.repeats + 1, MaxRepeats)
                          ELSE 1]
          /\ UNCHANGED pending
     ELSE /\ InFlight < MaxInFlight
          /\ pending' = [pending EXCEPT ![u] =
                           [op |-> "delete", id |-> predictionId]]
          /\ resp' = NoResponse
          /\ UNCHANGED mockLog
  /\ UNCHANGED <<readyState, store, nextId, now, createdLog, deletedLog>>

\* Lines 338-367: findOneAndDelete and the 404 or 200, or the catch block
\* for a query that rejects, on the cast of its _id or for want of a
\* connection
DeleteFind(u, cast) ==
  /\ pending[u].op = "delete"
  /\ cast \in CastOutcomes(pending[u].id)
  /\ pending' = [pending EXCEPT ![u] = Idle]
  /\ LET req == Request(pending[u].id, NoPayload, NoQuery, "none",
                        <<"findOneAndDelete">>)
         found == DeleteQuery(pending[u].id, u)
     IN
     IF cast = "refused"
     THEN /\ resp' = ErrorResponse("delete", u,
                                   CastErrorMessage(pending[u].id), req)
          /\ UNCHANGED <<store, deletedLog, createdLog>>
     ELSE IF ~StoreAvailable
     THEN /\ resp' = ErrorResponse("delete", u, StoreErrorMessage, req)
          /\ UNCHANGED <<store, deletedLog, createdLog>>
     ELSE IF found = {}
     THEN /\ resp' = Response("delete", u, 404, "error",
                 NotFoundOrForbiddenMessage,
                 NoData, "real", req)
          /\ UNCHANGED <<store, deletedLog, createdLog>>
     ELSE /\ store' = StoreAfterDelete(found)
          /\ deletedLog' = deletedLog \cup
               {[id |-> c.id, user |-> c.user] :
                  c \in {x \in createdLog : x.id = pending[u].id}}
          /\ createdLog' = {c \in createdLog : c.id # pending[u].id}
          /\ resp' = Response("delete", u, 200, "success",
                              DeletedMessage, NoData,
                              "real", req)
  /\ UNCHANGED <<readyState, nextId, now, mockLog>>

(* ------------------------- getPredictionHistory ------------------------ *)

Digits == {"0", "1", "2", "3", "4", "5", "6", "7", "8", "9"}

DigitValue(c) == CHOOSE d \in 0..9 : Digit(d) = c

RECURSIVE ParseDigits(_, _, _)
\* the number the digits of s from position i on denote, after acc
ParseDigits(s, i, acc) ==
  IF i > Len(s) \/ s[i] \notin Digits
  THEN acc
  ELSE ParseDigits(s, i + 1, acc * 10 + DigitValue(s[i]))

\* the characters parseInt skips, the WhiteSpace and LineTerminator of
\* ECMAScript: tab, line feed, vertical tab, form feed, carriage return,
\* space, no-break space, the space separators of Unicode, the line and
\* paragraph separators and the byte order mark
Blanks ==
  {"\t", "\n", "U+000B", "\f", "\r", " ", "U+00A0", "U+1680",
   "U+2000", "U+2001", "U+2002", "U+2003", "U+2004", "U+2005", "U+2006",
   "U+2007", "U+2008", "U+2009", "U+200A", "U+2028", "U+2029", "U+202F",
   "U+205F", "U+3000", "U+FEFF"}

\* the first position of s that holds no white space
FirstNonBlank(s) ==
  IF \E i \in 1..Len(s) : s[i] \notin Blanks
  THEN CHOOSE i \in 1..Len(s) :
         s[i] \notin Blanks /\ \A j \in 1..(i - 1) : s[j] \in Blanks
  ELSE Len(s) + 1

RECURSIVE ParseHexDigits(_, _, _)
\* the number the hexadecimal digits of s from position i on denote, after
\* acc
ParseHexDigits(s, i, acc) ==
  IF i > Len(s) \/ ~IsHexDigit(s[i])
  THEN acc
  ELSE ParseHexDigits(s, i + 1, acc * 16 + HexValue(s[i]))

\* parseInt(s): nan, or the integer n the longest numeric prefix denotes
ParseInt(s) ==
  LET b == FirstNonBlank(s)
      signed == b <= Len(s) /\ s[b] \in {"-", "+"}
      d == IF signed THEN b + 1 ELSE b
      hex == d + 1 <= Len(s) /\ s[d] = "0" /\ s[d + 1] \in {"x", "X"}
      magnitude ==
        IF hex THEN ParseHexDigits(s, d + 2, 0) ELSE ParseDigits(s, d, 0)
  IN
  IF hex
  THEN IF d + 2 > Len(s) \/ ~IsHexDigit(s[d + 2])
       THEN [nan |-> TRUE, n |-> 0]
       ELSE [nan |-> FALSE,
             n |-> IF signed /\ s[b] = "-" THEN 0 - magnitude ELSE magnitude]
  ELSE IF d > Len(s) \/ s[d] \notin Digits
  THEN [nan |-> TRUE, n |-> 0]
  ELSE [nan |-> FALSE,
        n |-> IF signed /\ s[b] = "-" THEN 0 - magnitude ELSE magnitude]

\* parseInt(s) || dflt
ParseIntOr(s, dflt) ==
  IF ParseInt(s).nan \/ ParseInt(s).n = 0 THEN dflt ELSE ParseInt(s).n

\* a query parameter the request does not carry reads as undefined, which
\* parseInt turns into the text "undefined"
Absent == <<"u", "n", "d", "e", "f", "i", "n", "e", "d">>

DayMs == 24 * 60 * 60 * 1000

\* the k-th draw of Math.random() of a request whose draws repeat rnd
Draw(rnd, k) == rnd[((k - 1) % Len(rnd)) + 1]

\* the draws r (thousandths) and the factors m of lines 153-158 whose
\* product in double arithmetic lies below the integer r * m / 1000:
\* 0.29 * 100 is 28.999999999999996, 0.57 * 100 is 56.99999999999999 and
\* 0.58 * 100 is 57.99999999999999
RoundedBelow == {<<290, 100>>, <<570, 100>>, <<580, 100>>}

\* Math.floor(r * m) for a draw r in thousandths and a factor m of lines
\* 153-158
FloorTimes(r, m) ==
  IF <<r, m>> \in RoundedBelow
  THEN (r * m) \div 1000 - 1
  ELSE (r * m) \div 1000

\* the calls of Date.now() one mock list makes: two for each prediction
MockListReads == 2 * 5

\* Lines 148-167: the i-th mock prediction; numbers of inputData in tenths,
\* but bmi, which line 157 does not floor, in hundredths (2701 is 27.01).
\* Its _id takes the (2i+1)-th call of Date.now(), its createdAt the next.
MockPrediction(i, userId, rnd, ticked) ==
  [_id |-> MockListId(i, ClockRead(2 * i + 1, ticked)),
   inputData |->
     [glucose |-> 10 * (110 + FloorTimes(Draw(rnd, 8 * i + 1), 70)),
      bloodPressure |-> 10 * (70 + FloorTimes(Draw(rnd, 8 * i + 2), 40)),
      skinThickness |-> 10 * (20 + FloorTimes(Draw(rnd, 8 * i + 3), 15)),
      insulin |-> 10 * (50 + FloorTimes(Draw(rnd, 8 * i + 4), 100)),
      bmi |-> 2200 + Draw(rnd, 8 * i + 5),
      age |-> 10 * (25 + FloorTimes(Draw(rnd, 8 * i + 6), 40))],
   result |->
     [prediction |->
        IF Draw(rnd, 8 * i + 7) > 500 THEN "High Risk" ELSE "Low Risk",
      riskScore |-> Draw(rnd, 8 * i + 8),
      factors |-> <<>>],
   createdAt |-> ClockRead(2 * i + 2, ticked) - i * DayMs,
   user |-> userId]

\* Array(5).fill().map(...)
MockPredictions(userId, rnd, ticked) ==
  [k \in 1..5 |-> MockPrediction(k - 1, userId, rnd, ticked)]

\* Math.ceil(a / b) for integers a >= 0 and b # 0
CeilDiv(a, b) ==
  IF b > 0 THEN (a + b - 1) \div b ELSE 0 - (a \div (0 - b))

\* the sequences that list the documents of S by createdAt, earliest first
SortedAscending(S) ==
  {q \in [1..Cardinality(S) -> S] :
     /\ \A i, j \in 1..Cardinality(S) : i # j => q[i] # q[j]
     /\ \A i, j \in 1..Cardinality(S) :
          i < j => q[i].createdAt <= q[j].createdAt}

\* the sequences that list the documents of S by createdAt, latest first
SortedByCreatedAt(S) ==
  {q \in [1..Cardinality(S) -> S] :
     /\ \A i, j \in 1..Cardinality(S) : i # j => q[i] # q[j]
     /\ \A i, j \in 1..Cardinality(S) :
          i < j => q[i].createdAt >= q[j].createdAt}

\* sorted.skip(skip).limit(limit): a negative limit asks for that many
\* documents in one batch
SkipLimit(sorted, skip, limit) ==
  LET n == IF limit < 0 THEN 0 - limit ELSE limit
      first == skip + 1
      last == Min(Len(sorted), skip + n)
  IN [k \in 1..(IF last >= first THEN last - first + 1 ELSE 0) |->
        sorted[skip + k]]

\* the count without its user filter
CountAllDocuments(userId) == Cardinality(store)

\* Prediction.countDocuments({user})
CountDocuments(userId) == Cardinality({r \in store : r.user = userId})

\* Line 143: the branch to the real path
ListConnected == ~(readyState # 1)

\* Lines 135-183: the paging numbers, the connection check, the mock list.
\* rnd gives the draws of Math.random(); the clock moves on after `ticked`
\* of the calls of Date.now() (after none of them when ticked is
\* MockListReads).
ListBegin(u, pageText, limitText, rnd, ticked) ==
  /\ pending[u] = Idle
  /\ LET page == ParseIntOr(pageText, 1)
         limit == ParseIntOr(limitText, 10)
         skip == (page - 1) * limit
         query == [page |-> pageText, limit |-> limitText]
         mockPredictions == MockPredictions(u, rnd, ticked)
     IN
     IF ~ListConnected
     THEN /\ ticked < MockListReads => now < MaxClock
          /\ now' = IF ticked < MockListReads THEN now + 1 ELSE now
          /\ resp' = Response("list", u, 200, "success", NoMessage,
                 [predictions |-> mockPredictions,
                  pagination |->
                    [total |-> Len(mockPredictions), page |-> 1,
                     limit |-> 10, pages |-> 1]],
                 "mock", Request(NoId, NoPayload, query, "none", <<>>))
          /\ UNCHANGED pending
     ELSE /\ InFlight < MaxInFlight
          /\ pending' = [pending EXCEPT ![u] =
                 [op |-> "list", stage |-> "find", query |-> query,
                  page |-> page, limit |-> limit, skip |-> skip,
                  predictions |-> <<>>]]
          /\ resp' = NoResponse
          /\ UNCHANGED now
  /\ UNCHANGED <<readyState, store, nextId, createdLog, deletedLog,
                 mockLog>>

\* Lines 185-188: find, sort, skip, limit; the collection refuses a
\* negative skip, and the catch block answers
ListFind(u) ==
  /\ pending[u].op = "list"
  /\ pending[u].stage = "find"
  /\ IF ~StoreAvailable \/ pending[u].skip < 0
     THEN /\ resp' = ErrorResponse("list", u, StoreErrorMessage,
                 Request(NoId, NoPayload, pending[u].query, "none",
                         <<"find">>))
          /\ pending' = [pending EXCEPT ![u] = Idle]
     ELSE /\ \E sorted \in SortedByCreatedAt({r \in store : r.user = u}) :
               pending' = [pending EXCEPT ![u] =
                  [@ EXCEPT !.stage = "count",
                            !.predictions =
                               SkipLimit(sorted, pending[u].skip,
                                         pending[u].limit)]]
          /\ resp' = NoResponse
  /\ UNCHANGED <<readyState, store, nextId, now, createdLog, deletedLog,
                 mockLog>>

\* Lines 190-213: countDocuments and the 200, or the catch block
ListCount(u) ==
  /\ pending[u].op = "list"
  /\ pending[u].stage = "count"
  /\ pending' = [pending EXCEPT ![u] = Idle]
  /\ LET req == Request(NoId, NoPayload, pending[u].query, "none",
                        <<"find", "countDocuments">>)
         total == CountDocuments(u)
     IN
     IF ~StoreAvailable
     THEN resp' = ErrorResponse("list", u, StoreErrorMessage, req)
     ELSE resp' = Response("list", u, 200, "success", NoMessage,
                    [predictions |-> pending[u].predictions,
                     pagination |->
                       [total |-> total, page |-> pending[u].page,
                        limit |-> pending[u].limit,
                        pages |-> CeilDiv(total, pending[u].limit)]],
                    "real", req)
  /\ UNCHANGED <<readyState, store, nextId, now, createdLog, deletedLog,
                 mockLog>>

(* ------------------------------- inputs -------------------------------- *)

\* the payload p without the keys outside D
Restrict(p, D) == [k \in D \cap DOMAIN p |-> p[k]]

\* the payload p with key k set to value v
With(p, k, v) == [j \in DOMAIN p \cup {k} |-> IF j = k THEN v ELSE p[j]]

FullPayload ==
  (Gender :> Str("Male")) @@ (Age :> Num(450))
    @@ (Hypertension :> Bool(TRUE)) @@ (HeartDisease :> Bool(FALSE))
    @@ (SmokingHistory :> Str("never")) @@ (Bmi :> Num(260))
    @@ (HbA1cLevel :> Num(65)) @@ (BloodGlucoseLevel :> Num(1410))

RequiredOnlyPayload == Restrict(FullPayload, RequiredKeys)

CorePayloads ==
  {RequiredOnlyPayload, Restrict(FullPayload, SchemaKeySet \ {Gender})}

CoreEngineResults ==
  {r \in EngineResults : r.recommendations = NoRecommendations}

CoreSamples == {501}

CoreFailures == Failures \ {"getRecommendations"}

BadId == <<"m", "o", "c", "k">>

CoreIds == {StoreId(n) : n \in 1..MaxIds} \cup {BadId}

CorePages == {Absent, <<"2">>}

CoreLimits == {<<"1">>, <<"2">>}

\* the values a key takes in the wide payloads besides FullPayload's;
\* Undefined stands for a payload without the key
Alternatives(k) ==
  CASE k = Gender -> {Undefined, Str("Female"), Str("male"), Num(10)}
    [] k = Age -> {Undefined, NumStr(300), Str("old")}
    [] k = Hypertension -> {Bool(FALSE), Str("false"), Str("yes")}
    [] k = HeartDisease -> {Undefined, Str("true"), Num(10)}
    [] k = SmokingHistory -> {Undefined, Str("former"), Str("sometimes")}
    [] k = Bmi -> {Undefined, Num(250), Bool(TRUE)}
    [] k = HbA1cLevel -> {Num(66), Str("high")}
    [] k = BloodGlucoseLevel -> {Num(1400), Str("x")}
    [] OTHER -> {Num(10)}

\* the payload p with key k set to v, or without it when v is undefined
Edit(p, k, v) ==
  IF v = Undefined THEN Restrict(p, DOMAIN p \ {k}) ELSE With(p, k, v)

\* keys the schema does not know, three of them with the name of an
\* optional key inside their own
Extra ==
  <<"e", "x", "t", "r", "a">>

UnknownKeyNames ==
  {Extra, Hypertension \o <<"2">>, <<"m", "y", "_">> \o HbA1cLevel,
   BloodGlucoseLevel \o <<"X">>}

\* FullPayload with one key changed
SingleEdits ==
  UNION {{Edit(FullPayload, k, v) : v \in Alternatives(k)} :
           k \in SchemaKeySet \cup UnknownKeyNames}

\* the sets of optional keys a payload leaves out
Omissions ==
  {{}, {Hypertension}, {HbA1cLevel, BloodGlucoseLevel}, OptionalKeys}

\* payloads that violate more than one rule
MultipleViolations ==
  {Restrict(FullPayload, {}),
   Restrict(FullPayload, SchemaKeySet \ {Gender, Age}),
   Edit(Edit(FullPayload, Bmi, Bool(TRUE)), Age, Str("old")),
   Edit(Edit(FullPayload, Hypertension, Str("yes")), Gender, Num(10)),
   Edit(Edit(FullPayload, Hypertension, Str("yes")), HeartDisease,
        Undefined),
   Edit(Edit(FullPayload, BloodGlucoseLevel, Str("x")), HbA1cLevel,
        Str("high")),
   Edit(Edit(FullPayload, Extra, Num(10)), Bmi, Undefined),
   Edit(Edit(FullPayload, Extra, Num(10)), HbA1cLevel, Str("high"))}

WidePayloads ==
  {Restrict(p, DOMAIN p \ O) :
     p \in {FullPayload} \cup SingleEdits, O \in Omissions}
  \cup MultipleViolations

\* a text of 12 characters
TwelveId ==
  <<"p", "r", "e", "d", "i", "c", "t", "i", "o", "n", "-", "1">>

WideIds ==
  {MockPrefix, BadId, SentinelId, StoreId(1), TwelveId,
   <<"M", "o", "c", "k", "-", "0">>,
   <<"x", "m", "o", "c", "k", "-", "0">>,
   SubSeq(SentinelId, 1, 23),
   SentinelId \o <<"0">>}
  \cup {MockCreateId(t) : t \in 0..MaxClock}
  \cup {MockListId(i, t) : i \in {0, 4}, t \in 0..MaxClock}

\* the page and limit texts of a request
WideQueries ==
  {[page |-> Absent, limit |-> Absent],
   [page |-> <<"1">>, limit |-> <<"2">>],
   [page |-> <<"2">>, limit |-> <<"1">>],
   [page |-> <<"0">>, limit |-> <<"0">>],
   [page |-> <<"-", "1">>, limit |-> <<"2", "5">>],
   [page |-> <<"3">>, limit |-> <<"-", "5">>],
   [page |-> <<"a", "b", "c">>, limit |-> <<"x">>],
   [page |-> <<"U+000B", "3", "x">>, limit |-> <<" ", "U+00A0", "1", "2">>],
   [page |-> <<"0", "x", "1", "0">>, limit |-> <<"\t", "1", "2">>],
   [page |-> <<"0", "x">>, limit |-> <<"U+FEFF", "\n", "-", "0", "X", "a">>],
   [page |-> <<"U+2028", "U+3000", "2">>, limit |-> <<"U+200B", "2">>]}

\* the outcomes of the inference: makePrediction returns engine and
\* getRecommendations its recommendations, or makePrediction fails and the
\* fallback draws r1 and r2, or makePrediction returns engine and
\* getRecommendations fails
WideOutcomes ==
  {[failed |-> "none", engine |-> e, r1 |-> 0, r2 |-> 0] :
     e \in EngineResults}
  \cup {[failed |-> "makePrediction",
         engine |-> CHOOSE e \in EngineResults : TRUE,
         r1 |-> r[1], r2 |-> r[2]] :
          r \in {500, 501} \X {0, 999}}
  \cup {[failed |-> "getRecommendations", engine |-> e,
         r1 |-> 501, r2 |-> 999] :
          e \in EngineResults}

WideDraws == [1..RandPeriod -> {0, 570, 999}]

\* the clock moves on after the first call of Date.now() of a mock list,
\* after its second, after its fifth, or not at all
WideTicks == {1, 2, 5, MockListReads}

\* the clock moves on between the two calls of a mock 201, or not at all
CoreTicks == {1, MockCreateReads}

(* --------------------------- specifications ---------------------------- *)

Create == \E u \in Users, payload \in CorePayloads : CreateBegin(u, payload)

Infer ==
  \E u \in Users, failed \in CoreFailures, engine \in CoreEngineResults,
     r1 \in CoreSamples, r2 \in CoreSamples, ticked \in CoreTicks :
    CreateInfer(u, failed, engine, r1, r2, ticked, MaxIds)

Save == \E u \in Users : CreateSave(u)

List ==
  \E u \in Users, pageText \in CorePages, limitText \in CoreLimits :
    ListBegin(u, pageText, limitText, <<501>>, MockListReads)

Find == \E u \in Users : ListFind(u)

Count == \E u \in Users : ListCount(u)

GetByOne == \E u \in Users, id \in CoreIds : GetBegin(u, id)

GetByOneFind ==
  \E u \in Users, cast \in {"cast", "refused"} : GetFind(u, cast)

Delete == \E u \in Users, id \in CoreIds : DeleteBegin(u, id)

DeleteFindOne ==
  \E u \in Users, cast \in {"cast", "refused"} : DeleteFind(u, cast)

Next ==
  \/ ConnectionChange
  \/ Tick
  \/ Create
  \/ Infer
  \/ Save
  \/ List
  \/ Find
  \/ Count
  \/ GetByOne
  \/ GetByOneFind
  \/ Delete
  \/ DeleteFindOne

Spec == Init /\ [][Next]_vars

\* Create alone, over the wide payloads and every outcome of the inference,
\* for requests that arrive while the collection holds fewer than
\* MaxIdsWide documents
CreateWide ==
  /\ nextId < MaxIdsWide
  /\ \E payload \in WidePayloads : CreateBegin("A", payload)

InferWide ==
  \E o \in WideOutcomes, ticked \in CoreTicks :
    CreateInfer("A", o.failed, o.engine, o.r1, o.r2, ticked, MaxIdsWide)

SaveWide == CreateSave("A")

NextCreate ==
  \/ ConnectionChange
  \/ Tick
  \/ CreateWide
  \/ InferWide
  \/ SaveWide

SpecCreate == Init /\ [][NextCreate]_vars

\* one user's requests over the wide ids, paging texts and random draws
CreateOne == CreateBegin("A", RequiredOnlyPayload)

InferOne ==
  \E engine \in CoreEngineResults, ticked \in CoreTicks :
    CreateInfer("A", "none", engine, 501, 501, ticked, MaxIdsWide)

ListWide ==
  \E q \in WideQueries, rnd \in WideDraws, ticked \in WideTicks :
    ListBegin("A", q.page, q.limit, rnd, ticked)

GetByOneWide == \E id \in WideIds : GetBegin("A", id)

DeleteWide == \E id \in WideIds : DeleteBegin("A", id)

NextMock ==
  \/ ConnectionChange
  \/ Tick
  \/ CreateOne
  \/ InferOne
  \/ SaveWide
  \/ ListWide
  \/ ListFind("A")
  \/ ListCount("A")
  \/ GetByOneWide
  \/ \E cast \in {"cast", "refused"} : GetFind("A", cast)
  \/ DeleteWide
  \/ \E cast \in {"cast", "refused"} : DeleteFind("A", cast)

SpecMock == Init /\ [][NextMock]_vars

(* ------------------------------- claims -------------------------------- *)

\* the user whose Create each id came from
Owners ==
  {[id |-> c.id, user |-> c.user] : c \in createdLog} \cup deletedLog

\* C1: on the real path GetByOne and Delete of an id that another user's
\* Create returned answer 404, every record a Create returned and no Delete
\* of its owner removed is still in the collection under its owner, and
\* GetByOne by the owner answers 200 with it.
C1_CrossOwnerIsolation ==
  /\ (/\ resp.op \in {"get", "delete"}
      /\ resp.path = "real"
      /\ \E o \in Owners : o.id = resp.id /\ o.user # resp.user)
       => resp.code = 404
  /\ \A c \in createdLog :
       \E r \in store : r._id = c.id /\ r.user = c.user
  /\ (/\ resp.op = "get"
      /\ resp.path = "real"
      /\ \E c \in createdLog : c.id = resp.id /\ c.user = resp.user)
       => /\ resp.code = 200
          /\ resp.data.prediction._id = resp.id
          /\ resp.data.prediction.user = resp.user

\* user B's Delete of the record user A created was answered 404 and the
\* record is still there
C1_Witness ==
  /\ resp.op = "delete"
  /\ resp.path = "real"
  /\ resp.code = 404
  /\ \E c \in createdLog :
       /\ c.id = resp.id
       /\ c.user # resp.user
       /\ \E r \in store : r._id = c.id /\ r.user = c.user

\* C2: on the real path GetByOne of an id that the same user's Create
\* returned with a 201, with no Delete of it since, answers 200 with the
\* inputData and the result that Create returned.
C2_CreateGetRoundTrip ==
  (resp.op = "get" /\ resp.path = "real")
    => \A c \in createdLog :
         (c.id = resp.id /\ c.user = resp.user)
           => /\ resp.code = 200
              /\ resp.data.prediction.inputData = c.inputData
              /\ resp.data.prediction.result = c.result

\* a GetByOne answered 200 for a created record while the same user holds a
\* second record with another result
C2_Witness ==
  /\ resp.op = "get"
  /\ resp.path = "real"
  /\ resp.code = 200
  /\ \E c \in createdLog : c.id = resp.id /\ c.user = resp.user
  /\ \E r \in store :
       /\ r.user = resp.user
       /\ r._id # resp.id
       /\ r.result # resp.data.prediction.result

\* C3: with the connection up when the handler checks it and when the
\* collection answers, once a Delete of an id has answered 200 every later
\* GetByOne and Delete of that id answers 404; and a Delete of
\* an id under which the caller owns no record answers 404, not 200 and
\* not 500, and leaves the collection as it was.
C3_DeleteIsFinal ==
  [][/\ (/\ resp'.op \in {"get", "delete"}
         /\ resp'.storeOps # <<>>
         /\ readyState = 1
         /\ \E d \in deletedLog : d.id = resp'.id)
          => resp'.code = 404
     /\ (/\ resp'.op = "delete"
         /\ resp'.storeOps # <<>>
         /\ readyState = 1
         /\ ~\E r \in store : r._id = resp'.id /\ r.user = resp'.user)
          => (resp'.code = 404 /\ store' = store)]_vars

\* C4: no handler answers 500 because the connection is down, at whatever
\* point of the request it goes down: no 500 carries the error of a store
\* operation that found no connection.
C4_StoreUnavailableNeverSurfaces ==
  ~(/\ resp.code = 500
    /\ resp.storeOps # <<>>
    /\ readyState # 1
    /\ resp.message = StoreErrorMessage)

\* C5: a Create whose inference failed is never answered 400 or 404, is
\* answered 201 with the fallback result on the mock path and on the real
\* path when the save succeeds, and is answered 500 only when the save
\* failed.
C5_InferenceFailureMasked ==
  (resp.op = "create" /\ resp.inference = "failed")
    => /\ resp.code \in {201, 500}
       /\ resp.path \in {"mock", "real"} => resp.code = 201
       /\ resp.code = 500 => resp.storeOps = <<"create">>
       /\ resp.code = 201
            => /\ resp.data.result.prediction \in {"High Risk", "Low Risk"}
               /\ resp.data.result.recommendations = StaticRecommendations
               /\ DOMAIN resp.data.result.factors =
                    {"bloodGlucoseLevel", "hbA1cLevel", "bmi",
                     "hypertension", "heartDisease"}

\* a Create whose inference failed was saved and answered 201
C5_Witness ==
  /\ resp.op = "create"
  /\ resp.inference = "failed"
  /\ resp.path = "real"
  /\ resp.code = 201
  /\ \E r \in store : r._id = resp.data.id /\ r.result = resp.data.result

\* the request p waits for an operation on the collection
StoreOpInFlight(p) ==
  \/ p.op \in {"get", "delete", "list"}
  \/ p.op = "create" /\ p.stage = "save"

\* C6: a handler that starts while the connection is not up leaves no
\* store operation in flight; a response of the mock path comes from a
\* request that ran no store operation and the step that sends it leaves
\* the collection as it was; no document carries an id with the mock
\* prefix, and no GetByOne of the real path answers 200 for such an id.
C6_MockTouchesNothing ==
  /\ [](/\ \A r \in store : ~StartsWith(r._id, MockPrefix)
        /\ (resp.op = "get" /\ resp.path = "real" /\ resp.code = 200)
             => ~StartsWith(resp.id, MockPrefix))
  /\ [][/\ readyState # 1
             => \A u \in Users :
                  ~(~StoreOpInFlight(pending[u])
                      /\ StoreOpInFlight(pending'[u]))
        /\ resp'.path = "mock"
             => /\ resp'.storeOps = <<>>
                /\ store' = store
                /\ nextId' = nextId
                /\ \A u \in Users : ~StoreOpInFlight(pending'[u])
                     \/ pending'[u] = pending[u]]_vars

\* a mock Create answered 201 while the collection holds a document
C6_Witness ==
  /\ resp.op = "create"
  /\ resp.path = "mock"
  /\ resp.code = 201
  /\ StartsWith(resp.data.id, MockPrefix)
  /\ store # {}

\* the mock id rule as the claim states it
MockAccepts(id) ==
  \/ (Len(id) >= 5 /\ SubSeq(id, 1, 5) = <<"m", "o", "c", "k", "-">>)
  \/ id = SentinelId

\* C7: on the mock path GetByOne and Delete answer 200 exactly for the ids
\* that start with "mock-" or equal the sentinel id and 404 for every other
\* id, and a Delete the mock path answers leaves the collection as it was.
C7_MockIdRule ==
  [][(resp'.path = "mock" /\ resp'.op \in {"get", "delete"})
       => /\ resp'.code = 200 <=> MockAccepts(resp'.id)
          /\ resp'.code = 404 <=> ~MockAccepts(resp'.id)
          /\ store' = store
          /\ createdLog' = createdLog]_vars

\* the mock path accepted a Delete of the sentinel id a second time in a row
C7_Witness ==
  /\ resp.op = "delete"
  /\ resp.path = "mock"
  /\ resp.code = 200
  /\ resp.id = SentinelId
  /\ mockLog.id = resp.id
  /\ mockLog.repeats >= 2

\* C8: on the mock path List answers 200 with 5 predictions whose
\* createdAt values descend by one day each, and with the pagination
\* total 5, page 1, limit 10, pages 1, whatever page and limit were asked.
C8_MockListFixed ==
  (resp.op = "list" /\ resp.path = "mock")
    => /\ resp.code = 200
       /\ Len(resp.data.predictions) = 5
       /\ \A i \in 1..4 :
            /\ resp.data.predictions[i].createdAt
                 > resp.data.predictions[i + 1].createdAt
            /\ resp.data.predictions[i].createdAt
                 - resp.data.predictions[i + 1].createdAt = 86400000
       /\ resp.data.pagination =
            [total |-> 5, page |-> 1, limit |-> 10, pages |-> 1]

\* the keys of the schema whose rule the payload p violates
ViolatedKeys(p) == {k \in SchemaKeySet : KeyError(k, Get(p, k)) # NoRule}

\* the position of key k in the schema
KeyIndex(k) == CHOOSE i \in 1..Len(SchemaKeys) : SchemaKeys[i] = k

\* the key the first violated rule is about: the first violated key of the
\* schema, or else a key the schema does not know
FirstViolatedKeys(p) ==
  IF ViolatedKeys(p) # {}
  THEN {k \in ViolatedKeys(p) :
          \A j \in ViolatedKeys(p) : KeyIndex(k) <= KeyIndex(j)}
  ELSE UnknownKeys(p)

\* C9: a Create whose payload violates the schema is answered 400 with
\* status "error" and the message of the first violated rule, which names
\* its key; the inference is not run, no store operation is started, and
\* the step leaves the collection and the requests in flight as they were.
C9_ValidationGates ==
  [][(/\ resp'.op = "create"
      /\ (ViolatedKeys(resp'.payload) # {}
            \/ UnknownKeys(resp'.payload) # {}))
       => /\ resp'.code = 400
          /\ resp'.status = "error"
          /\ \E k \in FirstViolatedKeys(resp'.payload) :
               StartsWith(resp'.message,
                          <<"\"">> \o k \o <<"\"", " ">>
                            \o (IF k \in SchemaKeySet
                                THEN KeyError(k, Get(resp'.payload, k))
                                ELSE RuleNotAllowed))
          /\ resp'.inference = "none"
          /\ resp'.storeOps = <<>>
          /\ store' = store
          /\ pending' = pending
          /\ nextId' = nextId]_vars

\* a 400 for a payload that violates a rule of an optional key and, later
\* in the schema, the rule of a required key
C9_Witness ==
  /\ resp.op = "create"
  /\ resp.code = 400
  /\ ViolatedKeys(resp.payload) = {Hypertension, HeartDisease}
  /\ StartsWith(resp.message, <<"\"">> \o Hypertension \o <<"\"">>)

\* p is valid and leaves out at least one optional key
OnlyOmitsOptional(p) ==
  /\ ViolatedKeys(p) = {}
  /\ UnknownKeys(p) = {}
  /\ OptionalKeys \ DOMAIN p # {}

\* C10: a Create whose payload is valid and leaves out optional keys is
\* answered 201, or 400 with the guidance on omitted values; never 500.
C10_OmittedOptionalNeverFails ==
  (resp.op = "create" /\ OnlyOmitsOptional(resp.payload))
    => \/ resp.code = 201
       \/ resp.code = 400 /\ Includes(resp.message, OmitGuidance)

MockMarker ==
  <<"(", "M", "O", "C", "K", " ", "-", " ", "N", "o", " ", "D", "B", ")">>

\* message.includes("(MOCK - No DB)")
HasMockMarker(msg) == Includes(msg, MockMarker)

\* C11: every response of the mock path carries a message with the marker
\* "(MOCK - No DB)" and no response of the real path carries it.
C11_DegradedModeMarker ==
  /\ resp.path = "mock" => HasMockMarker(resp.message)
  /\ resp.path = "real" => ~HasMockMarker(resp.message)

\* r has a riskScore in [0,1] (thousandths) and one of the two labels
ResultInRange(r) ==
  /\ r.riskScore >= 0
  /\ r.riskScore <= 1000
  /\ r.prediction \in {"High Risk", "Low Risk"}

\* C12: the result of every 201 of Create and of every document Create
\* saved has a riskScore in [0,1] and the prediction "High Risk" or
\* "Low Risk", from the engine and from the fallback alike.
C12_ResultRange ==
  /\ (resp.op = "create" /\ resp.code = 201)
       => ResultInRange(resp.data.result)
  /\ \A r \in store : ResultInRange(r.result)

\* a Create whose inference failed was saved with the largest score the
\* fallback draws
C12_Witness ==
  /\ resp.op = "create"
  /\ resp.code = 201
  /\ resp.path = "real"
  /\ resp.inference = "failed"
  /\ resp.data.result.riskScore = 999
  /\ \E r \in store : r.result = resp.data.result

\* C16: a Create whose valid payload leaves out hypertension answers 201
\* with an inputData whose hypertension is false, and the document it saves
\* carries that inputData.
C16_DefaultsApplied ==
  (/\ resp.op = "create"
   /\ resp.code = 201
   /\ Hypertension \notin DOMAIN resp.payload)
    => /\ Get(resp.data.inputData, Hypertension) = Bool(FALSE)
       /\ \A r \in store :
            r._id = resp.data.id
              => Get(r.inputData, Hypertension) = Bool(FALSE)

\* the recommendations the composer attaches to an engine result e
Composed(e) ==
  IF e.recommendations # NoRecommendations
  THEN e.recommendations
  ELSE StaticRecommendations

\* C17: the result of a 201 of a Create in which makePrediction returned a
\* result keeps that result's prediction, riskScore and factors, and carries
\* its recommendations when it has some and the static set otherwise, also
\* when composing the recommendations failed.
C17_ComposerPreserves ==
  (resp.op = "create" /\ resp.code = 201 /\ resp.engine # NoEngine)
    => /\ resp.data.result.prediction = resp.engine.prediction
       /\ resp.data.result.riskScore = resp.engine.riskScore
       /\ resp.data.result.factors = resp.engine.factors
       /\ resp.data.result.recommendations = Composed(resp.engine)

\* the value the validator makes of a boolean key: true for true and for
\* the text "true"
NormalizedTrue(v) == v = Bool(TRUE) \/ v = Str("true")

\* the value the validator makes of a number key exceeds limit (tenths)
NormalizedAbove(v, limit) ==
  /\ v.t = "number" \/ (v.t = "string" /\ v.s = "#")
  /\ v.n > limit

\* the factors the rules of the fallback give for the payload p
RuleFactors(p) ==
  [bloodGlucoseLevel |->
     IF NormalizedAbove(Get(p, BloodGlucoseLevel), 1400)
     THEN "High" ELSE "Normal",
   hbA1cLevel |->
     IF NormalizedAbove(Get(p, HbA1cLevel), 65)
     THEN "Elevated" ELSE "Normal",
   bmi |->
     IF NormalizedAbove(Get(p, Bmi), 250) THEN "Overweight" ELSE "Normal",
   hypertension |->
     IF NormalizedTrue(Get(p, Hypertension)) THEN "Present" ELSE "Absent",
   heartDisease |->
     IF NormalizedTrue(Get(p, HeartDisease)) THEN "Present" ELSE "Absent"]

\* C18: the factors of the result of a Create whose inference failed are
\* those of the rules: "High" iff bloodGlucoseLevel > 140, "Elevated" iff
\* hbA1cLevel > 6.5, "Overweight" iff bmi > 25, "Present" iff hypertension
\* (heartDisease) is true; the other label for a key left out and for the
\* values 140, 6.5 and 25.
C18_FallbackFactorRules ==
  (resp.op = "create" /\ resp.code = 201 /\ resp.inference = "failed")
    => resp.data.result.factors = RuleFactors(resp.payload)

\* the documents of user u
View(u) == {r \in store : r.user = u}

\* C13: a List the real path answers for a user none of whose records a
\* Delete removed reports a total of at least the number of records the
\* user's Creates returned, and its items are documents of that user,
\* latest createdAt first.
C13_RealList ==
  (resp.op = "list" /\ resp.path = "real")
    => /\ resp.code = 200
       /\ (~\E d \in deletedLog : d.user = resp.user)
            => resp.data.pagination.total
                 >= Cardinality({c \in createdLog : c.user = resp.user})
       /\ \A i \in 1..Len(resp.data.predictions) :
            resp.data.predictions[i].user = resp.user
       /\ \A i, j \in 1..Len(resp.data.predictions) :
            i < j => resp.data.predictions[i].createdAt
                       >= resp.data.predictions[j].createdAt

\* a List returned the two records of its user, the later one first
C13_Witness ==
  /\ resp.op = "list"
  /\ resp.path = "real"
  /\ resp.data.pagination.total = 2
  /\ Cardinality({c \in createdLog : c.user = resp.user}) = 2
  /\ Len(resp.data.predictions) = 2
  /\ resp.data.predictions[1].createdAt > resp.data.predictions[2].createdAt

\* C14: a step that answers another user's request, or none, leaves the
\* documents of a user as they were; and what the real path answers a
\* user's GetByOne, Delete and List is a function of that user's documents
\* and the request alone: GetByOne answers 200 with the user's document of
\* that id and 404 when the user has none, Delete answers 200 exactly when
\* the user has a document of that id, List reports the number of the
\* user's documents as total and only documents of the user as items.
C14_OwnerNonInterference ==
  [][\A u \in Users :
       /\ resp'.user # u => View(u)' = View(u)
       /\ (resp'.user = u /\ resp'.path = "real" /\ resp'.op = "get")
            => IF \E r \in View(u) : r._id = resp'.id
               THEN /\ resp'.code = 200
                    /\ resp'.data.prediction \in View(u)
                    /\ resp'.data.prediction._id = resp'.id
               ELSE resp'.code = 404
       /\ (resp'.user = u /\ resp'.path = "real" /\ resp'.op = "delete")
            => (resp'.code = 200 <=> \E r \in View(u) : r._id = resp'.id)
       /\ (resp'.user = u /\ resp'.path = "real" /\ resp'.op = "list")
            => /\ resp'.data.pagination.total = Cardinality(View(u))
               /\ \A i \in 1..Len(resp'.data.predictions) :
                    resp'.data.predictions[i] \in View(u)]_vars

\* a List of user A reported its one document while the collection holds a
\* document of user B and a Delete of user B is in flight
C14_Witness ==
  /\ resp.op = "list"
  /\ resp.user = "A"
  /\ resp.path = "real"
  /\ resp.data.pagination.total = 1
  /\ View("B") # {}
  /\ pending["B"].op = "delete"

\* C15: a document that stays in the collection stays as it is; the
\* collection changes only in a step that answers a Create 201 on the real
\* path, which adds exactly one document, under a new id and owned by the
\* caller, and in a step that answers a Delete 200 on the real path, which
\* removes exactly the one document of that id owned by the caller.
C15_RecordImmutability ==
  [][/\ \A r \in store, r2 \in store' : r._id = r2._id => r = r2
     /\ store' # store
          => \/ /\ resp'.op = "create"
                /\ resp'.code = 201
                /\ resp'.path = "real"
                /\ \E r \in store' \ store :
                     /\ store' = store \cup {r}
                     /\ r.user = resp'.user
                     /\ r._id = resp'.data.id
                     /\ r.inputData = resp'.data.inputData
                     /\ r.result = resp'.data.result
                     /\ r.createdAt = resp'.data.createdAt
                     /\ \A x \in store : x._id # r._id
             \/ /\ resp'.op = "delete"
                /\ resp'.code = 200
                /\ resp'.path = "real"
                /\ \E r \in store :
                     /\ store' = store \ {r}
                     /\ r._id = resp'.id
                     /\ r.user = resp'.user]_vars

\* a Delete removed one of two documents and the other is as its Create
\* returned it
C15_Witness ==
  /\ resp.op = "delete"
  /\ resp.path = "real"
  /\ resp.code = 200
  /\ \E r \in store, c \in createdLog :
       /\ r._id = c.id
       /\ r._id # resp.id
       /\ r.user = c.user
       /\ r.inputData = c.inputData
       /\ r.result = c.result

\* C19: every id a mock Create returns and every _id of an item a mock List
\* returns passes the id test of the mock GetByOne and of the mock Delete;
\* the mock path answers a GetByOne or Delete of an id that passes the test
\* with 200, and the prediction of GetByOne carries the requested id as its
\* _id and the caller as its user.
C19_MockIdsClosed ==
  [][/\ (resp'.path = "mock" /\ resp'.op = "create")
          => /\ ~GetMockNotFound(resp'.data.id)
             /\ ~DeleteMockNotFound(resp'.data.id)
     /\ (resp'.path = "mock" /\ resp'.op = "list")
          => \A i \in 1..Len(resp'.data.predictions) :
               /\ ~GetMockNotFound(resp'.data.predictions[i]._id)
               /\ ~DeleteMockNotFound(resp'.data.predictions[i]._id)
     /\ (/\ resp'.path = "mock"
         /\ resp'.op \in {"get", "delete"}
         /\ StartsWith(resp'.id, MockPrefix))
          => /\ resp'.code = 200
             /\ resp'.op = "get"
                  => /\ resp'.data.prediction._id = resp'.id
                     /\ resp'.data.prediction.user = resp'.user]_vars

\* the mock GetByOne answered 200 for the id of the last item of a mock
\* list made at the current time
C19_Witness ==
  /\ resp.op = "get"
  /\ resp.path = "mock"
  /\ resp.code = 200
  /\ resp.id = MockListId(4, now)
  /\ resp.data.prediction._id = resp.id

\* C20: a List on the real path works with a page of at least 1, a limit
\* of at least 1 and a skip of at least 0, reports a number of pages of at
\* least 0, and is answered 500 only when the connection is down.
C20_EffectivePagination ==
  /\ \A u \in Users :
       pending[u].op = "list"
         => /\ pending[u].page >= 1
            /\ pending[u].limit >= 1
            /\ pending[u].skip >= 0
  /\ (resp.op = "list" /\ resp.path = "real")
       => /\ resp.data.pagination.page >= 1
          /\ resp.data.pagination.limit >= 1
          /\ resp.data.pagination.pages >= 0
  /\ (resp.op = "list" /\ resp.code = 500) => readyState # 1

====
